---- MODULE Spec2Model ----
(***************************************************************************)
(* Model of src/imageAnalysis.ts: the Dockerfile FROM/ARG interpreter of   *)
(* DockerImageAnalysis and the orchestration of one image analysis run by  *)
(* executeDockerImageAnalysis.                                             *)
(*                                                                         *)
(* A JavaScript string is a sequence of one-character strings.  null and   *)
(* undefined are the empty tuple <<>> and a present value v is <<v>>.      *)
(***************************************************************************)
EXTENDS Integers, Sequences, FiniteSets, TLC

\* Largest number of lines of a manifest file.
MaxLines == 3

----------------------------------------------------------------------------
\* Characters and generic string helpers

\* The characters \s matches that occur in a line ('\n' never does: lines
\* are the result of split('\n')).
IsWs(c) == c \in {" ", "\t", "\r"}

\* The characters '.' does not match.
IsLineTerminator(c) == c \in {"\n", "\r"}

Drop(s, n) == SubSeq(s, n + 1, Len(s))

StartsWithAt(s, i, p) ==
    /\ i + Len(p) - 1 <= Len(s)
    /\ SubSeq(s, i, i + Len(p) - 1) = p

\* Length of the longest run of \s characters of s starting at position i.
RECURSIVE WsRun(_, _)
WsRun(s, i) ==
    IF i <= Len(s) /\ IsWs(s[i]) THEN 1 + WsRun(s, i + 1) ELSE 0

\* Length of the longest run of \S characters of s starting at position i.
RECURSIVE NonWsRun(_, _)
NonWsRun(s, i) ==
    IF i <= Len(s) /\ ~IsWs(s[i]) THEN 1 + NonWsRun(s, i + 1) ELSE 0

\* Length of the longest run of '.' characters of s starting at position i.
RECURSIVE DotRun(_, _)
DotRun(s, i) ==
    IF i <= Len(s) /\ ~IsLineTerminator(s[i]) THEN 1 + DotRun(s, i + 1) ELSE 0

\* Length of the longest run of [^{}] characters of s starting at position i.
RECURSIVE NonBraceRun(_, _)
NonBraceRun(s, i) ==
    IF i <= Len(s) /\ s[i] \notin {"{", "}"} THEN 1 + NonBraceRun(s, i + 1) ELSE 0

\* String.prototype.trim
trim(s) ==
    LET a == WsRun(s, 1)
        t == Drop(s, a)
        RECURSIVE TrailWs(_)
        TrailWs(n) == IF n >= 1 /\ IsWs(t[n]) THEN TrailWs(n - 1) ELSE n
    IN SubSeq(t, 1, TrailWs(Len(t)))

\* String.prototype.split(c) for a one-character separator: every separator
\* cuts, so a string with k separators gives k + 1 parts.
RECURSIVE split(_, _)
split(s, c) ==
    LET RECURSIVE Find(_)
        Find(i) == IF i > Len(s) \/ s[i] = c THEN i ELSE Find(i + 1)
        j == Find(1)
    IN IF j > Len(s) THEN <<s>>
       ELSE <<SubSeq(s, 1, j - 1)>> \o split(Drop(s, j), c)

\* Array.prototype.join('\n'), the inverse the file contents are built with.
RECURSIVE JoinLines(_)
JoinLines(ls) ==
    IF Len(ls) = 0 THEN <<>>
    ELSE IF Len(ls) = 1 THEN ls[1]
    ELSE ls[1] \o <<"\n">> \o JoinLines(Tail(ls))

\* a[i] of a JavaScript array: undefined past the end.
At(a, i) == IF i <= Len(a) THEN <<a[i]>> ELSE <<>>

----------------------------------------------------------------------------
\* The regular expressions of DockerImageAnalysis

\* line.match(/^\s*KW\s+(.*)/): <<>> when there is no match, else <<group 1>>.
KeywordMatch(line, kw) ==
    LET a == WsRun(line, 1)
        b == a + Len(kw)
        w == WsRun(line, b + 1)
    IN IF StartsWithAt(line, a + 1, kw) /\ w >= 1
       THEN <<SubSeq(line, b + w + 1, b + w + DotRun(line, b + w + 1))>>
       ELSE <<>>

FROM_REGEX(line) == KeywordMatch(line, <<"F", "R", "O", "M">>)

ARG_REGEX(line) == KeywordMatch(line, <<"A", "R", "G">>)

PlatformFlag == <<"-", "-", "p", "l", "a", "t", "f", "o", "r", "m", "=">>

\* Length of the match of /--platform=([^\s]+)/ at position i of s, 0 if none.
PLATFORM_REGEX(s, i) ==
    LET n == NonWsRun(s, i + Len(PlatformFlag))
    IN IF StartsWithAt(s, i, PlatformFlag) /\ n >= 1
       THEN Len(PlatformFlag) + n ELSE 0

\* Length of the match of /\s+AS\s+\S+/i at position i of s, 0 if none.
AS_REGEX(s, i) ==
    LET w1 == WsRun(s, i)
        j  == i + w1
        w2 == WsRun(s, j + 2)
        n  == NonWsRun(s, j + 2 + w2)
    IN IF /\ w1 >= 1
          /\ j + 1 <= Len(s)
          /\ s[j] \in {"A", "a"}
          /\ s[j + 1] \in {"S", "s"}
          /\ w2 >= 1
          /\ n >= 1
       THEN w1 + 2 + w2 + n ELSE 0

\* Position of the closing brace of the match of /\${([^{}]+)}/ at position
\* i of s, 0 if none.
ArgRefEnd(s, i) ==
    LET n == NonBraceRun(s, i + 2)
        j == i + 2 + n
    IN IF /\ StartsWithAt(s, i, <<"$", "{">>)
          /\ n >= 1
          /\ j <= Len(s)
          /\ s[j] = "}"
       THEN j ELSE 0

\* s.replace(PLATFORM_REGEX, ''), the regular expression being global.
RECURSIVE RemovePlatform(_, _)
RemovePlatform(s, i) ==
    IF i > Len(s) THEN <<>>
    ELSE LET m == PLATFORM_REGEX(s, i)
         IN IF m > 0 THEN RemovePlatform(s, i + m)
            ELSE <<s[i]>> \o RemovePlatform(s, i + 1)

\* s.replace(AS_REGEX, ''), the regular expression being global.
RECURSIVE RemoveAlias(_, _)
RemoveAlias(s, i) ==
    IF i > Len(s) THEN <<>>
    ELSE LET m == AS_REGEX(s, i)
         IN IF m > 0 THEN RemoveAlias(s, i + m)
            ELSE <<s[i]>> \o RemoveAlias(s, i + 1)

\* line.match(PLATFORM_REGEX): with the g flag the array of all matched
\* substrings, of which only element 0 is read; <<>> when there is none.
RECURSIVE FirstPlatformMatch(_, _)
FirstPlatformMatch(s, i) ==
    IF i > Len(s) THEN <<>>
    ELSE LET m == PLATFORM_REGEX(s, i)
         IN IF m > 0 THEN <<SubSeq(s, i, i + m - 1)>>
            ELSE FirstPlatformMatch(s, i + 1)

----------------------------------------------------------------------------
\* The manifests read from disk

Scratch == <<"s", "c", "r", "a", "t", "c", "h">>

\* "ARG V=a"
LineArgA == <<"A", "R", "G", " ", "V", "=", "a">>
\* "ARG V=b=c"
LineArgBC == <<"A", "R", "G", " ", "V", "=", "b", "=", "c">>
\* "ARG V=scratch"
LineArgScratch == <<"A", "R", "G", " ", "V", "=">> \o Scratch
\* " ARG  V"
LineArgBare == <<" ", "A", "R", "G", " ", " ", "V">>
\* "FROM ${V}"
LineFromVar == <<"F", "R", "O", "M", " ", "$", "{", "V", "}">>
\* "FROM --platform=p u:${V} AS b"
LineFromFull ==
    <<"F", "R", "O", "M", " ">> \o PlatformFlag
        \o <<"p", " ", "u", ":", "$", "{", "V", "}", " ", "A", "S", " ", "b">>
\* "\tFROM  scratch "
LineFromScratch == <<"\t", "F", "R", "O", "M", " ", " ">> \o Scratch \o <<" ">>
\* "FROM --platform=p scratch as s\r"
LineFromScratchFull ==
    <<"F", "R", "O", "M", " ">> \o PlatformFlag \o <<"p", " ">> \o Scratch
        \o <<" ", "a", "s", " ", "s", "\r">>
\* "FROM u"
LineFromU == <<"F", "R", "O", "M", " ", "u">>
\* "RUN u"
LineRun == <<"R", "U", "N", " ", "u">>
\* ""
LineEmpty == <<>>

LineSet ==
    { LineArgA, LineArgBC, LineArgScratch, LineArgBare, LineFromVar,
      LineFromFull, LineFromScratch, LineFromScratchFull, LineFromU,
      LineRun, LineEmpty }

Manifests == UNION { [1..n -> LineSet] : n \in 1..MaxLines }

\* What readFileSync finds at filePath: nothing readable, or the contents.
Files ==
    { [readable |-> FALSE, content |-> <<>>] }
        \cup { [readable |-> TRUE, content |-> JoinLines(m)] : m \in Manifests }

\* The report payloads imageAnalysisService resolves with and the errors it
\* rejects with.
Reports == {"<html>report1</html>", "<html>report2</html>"}
AnalysisErrors == {"AnalysisError1", "AnalysisError2"}

\* The snapshot of globalConfig taken at construction.
options == "globalConfig"

----------------------------------------------------------------------------
\* DockerImageAnalysis: the interpreter of one line

\* new Map<string, string>()
EmptyArgs == [n \in {} |-> <<>>]

\* Map.prototype.set, keeping the earlier value of a name already present.
SetArgKeepFirst(m, k, v) ==
    [n \in DOMAIN m \cup {k} |-> IF n \in DOMAIN m THEN m[n] ELSE v]

\* Map.prototype.set
SetArg(m, k, v) ==
    [n \in DOMAIN m \cup {k} |-> IF n = k THEN v ELSE m[n]]

\* this.args.get(key) || ''
GetArg(m, key) ==
    IF key \in DOMAIN m /\ m[key] # <<>> THEN m[key][1] ELSE <<>>

\* The ARG part of parseLine: the argument table after the line.
ArgsAfter(line, m) ==
    LET argMatch == ARG_REGEX(line)
    IN IF argMatch = <<>> THEN m
       ELSE LET argData == split(trim(argMatch[1]), "=")
            IN SetArg(m, argData[1], At(argData, 2))

\* replaceArgsInString: every ${key} replaced by its value in the table, the
\* replacement itself not being scanned again.
RECURSIVE replaceArgsInString(_, _, _)
replaceArgsInString(imageData, i, m) ==
    IF i > Len(imageData) THEN <<>>
    ELSE LET j == ArgRefEnd(imageData, i)
         IN IF j > 0
            THEN GetArg(m, SubSeq(imageData, i + 2, j - 1))
                     \o replaceArgsInString(imageData, j + 1, m)
            ELSE <<imageData[i]>> \o replaceArgsInString(imageData, i + 1, m)

\* The image name parseLine derives from group 1 of FROM_REGEX.
CleanImage(imageData, m) ==
    trim(RemoveAlias(RemovePlatform(replaceArgsInString(imageData, 1, m), 1), 1))

\* platformMatch[0].split('=')[1], or '' without a platform qualifier.
PlatformOf(line) ==
    LET platformMatch == FirstPlatformMatch(line, 1)
    IN IF platformMatch = <<>> THEN <<>>
       ELSE split(platformMatch[1], "=")[2]

\* The FROM part of parseLine with the 'scratch' test made before the
\* qualifier and the alias are removed.
FromRefEarlyScratchTest(line, m) ==
    LET imageMatch == FROM_REGEX(line)
    IN IF imageMatch = <<>> THEN <<>>
       ELSE IF trim(replaceArgsInString(imageMatch[1], 1, m)) = Scratch THEN <<>>
       ELSE <<[image |-> CleanImage(imageMatch[1], m), platform |-> PlatformOf(line)]>>

\* The FROM part of parseLine: <<>> when it returns undefined, else <<ref>>.
FromRef(line, m) ==
    LET imageMatch == FROM_REGEX(line)
    IN IF imageMatch = <<>> THEN <<>>
       ELSE LET imageData == CleanImage(imageMatch[1], m)
            IN IF imageData = Scratch THEN <<>>
               ELSE <<[image |-> imageData, platform |-> PlatformOf(line)]>>

----------------------------------------------------------------------------
\* The run of executeDockerImageAnalysis

VARIABLES
    pc,        \* where the run of executeDockerImageAnalysis stands
    lines,     \* constructor: the lines parseTxtDoc returned
    idx,       \* collectImages: the position of the line reduce is at
    acc,       \* collectImages: the array reduce accumulates
    args,      \* this.args
    images,    \* this.images
    imageAnalysisReportHtml,   \* this.imageAnalysisReportHtml
    service,   \* the promise imageAnalysisService returned
    sent,      \* the arguments of each call of imageAnalysisService
    events,    \* the calls of p.report, updateCurrentWebviewPanel and
               \* imageAnalysisService, in the order they were made
    err,       \* the exception in flight, "none" without one
    result     \* what executeDockerImageAnalysis resolved with, if it has

vars ==
    <<pc, lines, idx, acc, args, images, imageAnalysisReportHtml, service,
      sent, events, err, result>>

\* StatusMessages of ./constants
WIN_ANALYZING_DEPENDENCIES == "WIN_ANALYZING_DEPENDENCIES"
WIN_GENERATING_DEPENDENCIES == "WIN_GENERATING_DEPENDENCIES"
WIN_SUCCESS_DEPENDENCY_ANALYSIS == "WIN_SUCCESS_DEPENDENCY_ANALYSIS"
WIN_FAILURE_DEPENDENCY_ANALYSIS == "WIN_FAILURE_DEPENDENCY_ANALYSIS"

\* p.report({ message })
Report(message) == [kind |-> "progress", arg |-> message]
\* updateCurrentWebviewPanel(data)
updateCurrentWebviewPanel(data) == [kind |-> "display", arg |-> data]
\* imageAnalysisService(this.images, this.options)
imageAnalysisService == [kind |-> "analyze", arg |-> options]

Pending == [state |-> "pending", value |-> "none"]

Init ==
    /\ pc = "start"
    /\ lines = <<>>
    /\ idx = 0
    /\ acc = <<>>
    /\ args = EmptyArgs
    /\ images = <<>>
    /\ imageAnalysisReportHtml = ""
    /\ service = [state |-> "none", value |-> "none"]
    /\ sent = <<>>
    /\ events = <<>>
    /\ err = "none"
    /\ result = "none"

\* parseTxtDoc throwing the error of readFileSync without showing it.
parseTxtDocSilent(f) ==
    /\ pc = "start"
    /\ IF f.readable
       THEN /\ lines' = split(f.content, "\n")
            /\ idx' = 1
            /\ pc' = "collectImages"
            /\ UNCHANGED err
       ELSE /\ err' = "ReadError"
            /\ pc' = "thrown"
            /\ UNCHANGED <<lines, idx>>
    /\ UNCHANGED <<acc, args, images, imageAnalysisReportHtml, service, sent,
                   events, result>>

\* executeDockerImageAnalysis constructs DockerImageAnalysis, whose constructor
\* calls parseTxtDoc: the lines of the file, or updateCurrentWebviewPanel('error')
\* and the error of readFileSync thrown through the constructor and through
\* the catch of executeDockerImageAnalysis.
parseTxtDoc(f) ==
    /\ pc = "start"
    /\ IF f.readable
       THEN /\ lines' = split(f.content, "\n")
            /\ idx' = 1
            /\ pc' = "collectImages"
            /\ UNCHANGED <<events, err>>
       ELSE /\ events' = Append(events, updateCurrentWebviewPanel("error"))
            /\ err' = "ReadError"
            /\ pc' = "thrown"
            /\ UNCHANGED <<lines, idx>>
    /\ UNCHANGED <<acc, args, images, imageAnalysisReportHtml, service, sent,
                   result>>

\* One call of the reducer of collectImages that pushes a reference only if
\* the array does not hold an equal one yet.
parseLineDedupe ==
    /\ pc = "collectImages"
    /\ LET line == lines[idx]
           args1 == ArgsAfter(line, args)
           ref == FromRef(line, args1)
           acc1 == IF ref # <<>> /\ \E k \in 1..Len(acc) : acc[k] = ref[1]
                   THEN acc ELSE acc \o ref
       IN /\ args' = args1
          /\ acc' = acc1
          /\ IF idx = Len(lines)
             THEN images' = acc1 /\ pc' = "constructed"
             ELSE UNCHANGED <<images, pc>>
    /\ idx' = idx + 1
    /\ UNCHANGED <<lines, imageAnalysisReportHtml, service, sent, events, err,
                   result>>

\* One call of the reducer of collectImages: parseLine on the line at idx,
\* its reference, if any, pushed.  After the last line the constructor
\* assigns the result to this.images.
parseLine ==
    /\ pc = "collectImages"
    /\ LET line == lines[idx]
           args1 == ArgsAfter(line, args)
           acc1 == acc \o FromRef(line, args1)
       IN /\ args' = args1
          /\ acc' = acc1
          /\ IF idx = Len(lines)
             THEN images' = acc1 /\ pc' = "constructed"
             ELSE UNCHANGED <<images, pc>>
    /\ idx' = idx + 1
    /\ UNCHANGED <<lines, imageAnalysisReportHtml, service, sent, events, err,
                   result>>

\* runImageAnalysis up to its await: withProgress runs the task, which
\* reports the first phase and calls imageAnalysisService.  The locals of the
\* constructor are gone.
runImageAnalysis ==
    /\ pc = "constructed"
    /\ events' = events \o <<Report(WIN_ANALYZING_DEPENDENCIES), imageAnalysisService>>
    /\ sent' = Append(sent, [images |-> images, options |-> options])
    /\ service' = Pending
    /\ pc' = "awaiting"
    /\ lines' = <<>>
    /\ idx' = 0
    /\ acc' = <<>>
    /\ UNCHANGED <<args, images, imageAnalysisReportHtml, err, result>>

\* The external service settles its promise.
serviceResolves(resp) ==
    /\ pc = "awaiting"
    /\ service = Pending
    /\ service' = [state |-> "resolved", value |-> resp]
    /\ UNCHANGED <<pc, lines, idx, acc, args, images, imageAnalysisReportHtml,
                   sent, events, err, result>>

serviceRejects(e) ==
    /\ pc = "awaiting"
    /\ service = Pending
    /\ service' = [state |-> "rejected", value |-> e]
    /\ UNCHANGED <<pc, lines, idx, acc, args, images, imageAnalysisReportHtml,
                   sent, events, err, result>>

\* The then callback with the report shown before the second phase is
\* reported.
thenCallbackDisplayFirst ==
    /\ pc = "awaiting"
    /\ service.state = "resolved"
    /\ events' = events \o
           << updateCurrentWebviewPanel(service.value),
              Report(WIN_GENERATING_DEPENDENCIES),
              Report(WIN_SUCCESS_DEPENDENCY_ANALYSIS) >>
    /\ imageAnalysisReportHtml' = service.value
    /\ pc' = "resolved"
    /\ UNCHANGED <<lines, idx, acc, args, images, service, sent, err, result>>

\* The then callback of the call: two phases reported around the display of
\* the report, the report kept, the promise of the task resolved.
thenCallback ==
    /\ pc = "awaiting"
    /\ service.state = "resolved"
    /\ events' = events \o
           << Report(WIN_GENERATING_DEPENDENCIES),
              updateCurrentWebviewPanel(service.value),
              Report(WIN_SUCCESS_DEPENDENCY_ANALYSIS) >>
    /\ imageAnalysisReportHtml' = service.value
    /\ pc' = "resolved"
    /\ UNCHANGED <<lines, idx, acc, args, images, service, sent, err, result>>

\* The catch callback resolving the promise of the task after the failure
\* phase instead of rejecting it.
catchCallbackResolve ==
    /\ pc = "awaiting"
    /\ service.state = "rejected"
    /\ events' = Append(events, Report(WIN_FAILURE_DEPENDENCY_ANALYSIS))
    /\ pc' = "resolved"
    /\ UNCHANGED <<lines, idx, acc, args, images, imageAnalysisReportHtml,
                   service, sent, err, result>>

\* The catch callback showing 'error' itself after the failure phase.
catchCallbackDisplays ==
    /\ pc = "awaiting"
    /\ service.state = "rejected"
    /\ events' = events \o
           << Report(WIN_FAILURE_DEPENDENCY_ANALYSIS),
              updateCurrentWebviewPanel("error") >>
    /\ err' = service.value
    /\ pc' = "rejected"
    /\ UNCHANGED <<lines, idx, acc, args, images, imageAnalysisReportHtml,
                   service, sent, result>>

\* The catch callback of the call: the failure phase reported, the promise
\* of the task rejected with the error.
catchCallback ==
    /\ pc = "awaiting"
    /\ service.state = "rejected"
    /\ events' = Append(events, Report(WIN_FAILURE_DEPENDENCY_ANALYSIS))
    /\ err' = service.value
    /\ pc' = "rejected"
    /\ UNCHANGED <<lines, idx, acc, args, images, imageAnalysisReportHtml,
                   service, sent, result>>

\* The catch block of runImageAnalysis rethrowing without a display.
runImageAnalysisCatchSilent ==
    /\ pc = "rejected"
    /\ pc' = "runThrown"
    /\ UNCHANGED <<lines, idx, acc, args, images, imageAnalysisReportHtml,
                   service, sent, events, err, result>>

\* The catch block of runImageAnalysis: the rejection of withProgress shown
\* as 'error' and thrown again.
runImageAnalysisCatch ==
    /\ pc = "rejected"
    /\ events' = Append(events, updateCurrentWebviewPanel("error"))
    /\ pc' = "runThrown"
    /\ UNCHANGED <<lines, idx, acc, args, images, imageAnalysisReportHtml,
                   service, sent, err, result>>

\* executeDockerImageAnalysis after its await returned: the report is its
\* result.
executeReturn ==
    /\ pc = "resolved"
    /\ result' = imageAnalysisReportHtml
    /\ pc' = "returned"
    /\ UNCHANGED <<lines, idx, acc, args, images, imageAnalysisReportHtml,
                   service, sent, events, err>>

\* executeDockerImageAnalysis after its await threw: its catch block throws
\* the error again.
executeCatch ==
    /\ pc = "runThrown"
    /\ pc' = "thrown"
    /\ UNCHANGED <<lines, idx, acc, args, images, imageAnalysisReportHtml,
                   service, sent, events, err, result>>

Next ==
    \/ pc = "start" /\ \E f \in Files : parseTxtDoc(f)
    \/ parseLine
    \/ runImageAnalysis
    \/ \E resp \in Reports : serviceResolves(resp)
    \/ \E e \in AnalysisErrors : serviceRejects(e)
    \/ thenCallback
    \/ catchCallback
    \/ runImageAnalysisCatch
    \/ executeReturn
    \/ executeCatch

Spec == Init /\ [][Next]_vars

----------------------------------------------------------------------------
\* Vocabulary of the properties

\* The calls of updateCurrentWebviewPanel and of p.report so far, in order.
Displays == SelectSeq(events, LAMBDA e : e.kind = "display")
Progress == SelectSeq(events, LAMBDA e : e.kind = "progress")

\* The external call has rejected and runImageAnalysis has thrown.
RejectionReachedCaller ==
    service.state = "rejected" /\ pc \in {"runThrown", "thrown"}

\* The constructor is at work or returning: its lines are at hand and the
\* lines before idx have been interpreted.
Collecting == pc \in {"collectImages", "constructed"}

\* The ARG lines before line i, and what such a line assigns: its name and,
\* when it has one, its value.
ArgLinesBefore(i) == { j \in 1..(i - 1) : ARG_REGEX(lines[j]) # <<>> }
Assigned(j) == split(trim(ARG_REGEX(lines[j])[1]), "=")
NameOf(j) == Assigned(j)[1]

\* The last ARG line before line i that assigns name n.
LastArgLine(n, i) ==
    CHOOSE j \in ArgLinesBefore(i) :
        /\ NameOf(j) = n
        /\ \A k \in ArgLinesBefore(i) : NameOf(k) = n => k <= j

\* The argument table built from exactly the ARG lines before line i.
TableBefore(i) ==
    [ n \in { NameOf(j) : j \in ArgLinesBefore(i) } |->
        At(Assigned(LastArgLine(n, i)), 2) ]

\* The reference of line i computed with that table.
ExpectedRef(i) == FromRef(lines[i], TableBefore(i))

RECURSIVE ExpectedRefs(_)
ExpectedRefs(n) ==
    IF n = 0 THEN <<>> ELSE ExpectedRefs(n - 1) \o ExpectedRef(n)

\* Line i matches FROM; its name after substitution, removal of the platform
\* qualifier and of the alias, and trimming.
IsFromLine(i) == FROM_REGEX(lines[i]) # <<>>
NameOfFrom(i) == CleanImage(FROM_REGEX(lines[i])[1], TableBefore(i))
IsScratchLine(i) == IsFromLine(i) /\ NameOfFrom(i) = Scratch

----------------------------------------------------------------------------
\* C1: once runImageAnalysis has finished, or the constructor has thrown,
\* updateCurrentWebviewPanel has been called exactly once: with the report
\* the call resolved with after a resolution, with 'error' after a failure;
\* at no time has it been called twice.
C1_DisplayExactlyOnce ==
    /\ Len(Displays) <= 1
    /\ pc \in {"resolved", "returned"}
          => Displays = <<updateCurrentWebviewPanel(service.value)>>
    /\ pc \in {"runThrown", "thrown"}
          => Displays = <<updateCurrentWebviewPanel("error")>>

C1_Witness ==
    /\ pc = "thrown"
    /\ service.state = "rejected"
    /\ Displays = <<updateCurrentWebviewPanel("error")>>

\* C2 as stated: when the external call has rejected and the rejection has
\* reached the caller of runImageAnalysis, the orchestrator has not called
\* updateCurrentWebviewPanel.
C2_NoDisplayOnRejection ==
    RejectionReachedCaller => Displays = <<>>

\* C2 amended: when the external call has rejected and the rejection has
\* reached the caller of runImageAnalysis, the orchestrator has reported the
\* failure phase and then called updateCurrentWebviewPanel exactly once,
\* with 'error'.
C2_DisplayErrorOnRejection ==
    RejectionReachedCaller =>
        /\ Len(events) >= 2
        /\ SubSeq(events, Len(events) - 1, Len(events))
              = << Report(WIN_FAILURE_DEPENDENCY_ANALYSIS),
                   updateCurrentWebviewPanel("error") >>
        /\ Len(Displays) = 1

C2_Witness ==
    /\ pc = "runThrown"
    /\ service.state = "rejected"
    /\ events[Len(events)] = updateCurrentWebviewPanel("error")

\* C3: once the catch callback of a rejected call has run, the progress
\* updates are 'analyzing dependencies' then 'failure' and no other, the
\* error in flight out of runImageAnalysis and out of
\* executeDockerImageAnalysis is the one the call rejected with, and the run
\* never returns normally.
C3_RejectionPropagates ==
    service.state = "rejected" =>
        /\ pc \in {"awaiting", "rejected", "runThrown", "thrown"}
        /\ result = "none"
        /\ pc # "awaiting" =>
              /\ Progress = << Report(WIN_ANALYZING_DEPENDENCIES),
                               Report(WIN_FAILURE_DEPENDENCY_ANALYSIS) >>
              /\ err = service.value

C3_Witness ==
    /\ pc = "thrown"
    /\ service.state = "rejected"
    /\ err = service.value
    /\ err \in AnalysisErrors

\* C4: the call is issued right after 'analyzing dependencies' is reported;
\* once the then callback of a resolved call has run, the events are, each
\* once and in this order: 'analyzing dependencies', the call, 'generating
\* output', the display of the report, 'success'; a run whose call resolved
\* never reports 'failure'.
C4_SuccessOrder ==
    /\ pc = "awaiting"
          => events = <<Report(WIN_ANALYZING_DEPENDENCIES), imageAnalysisService>>
    /\ service.state = "resolved" =>
          /\ pc \in {"awaiting", "resolved", "returned"}
          /\ pc # "awaiting" =>
                events = << Report(WIN_ANALYZING_DEPENDENCIES),
                            imageAnalysisService,
                            Report(WIN_GENERATING_DEPENDENCIES),
                            updateCurrentWebviewPanel(service.value),
                            Report(WIN_SUCCESS_DEPENDENCY_ANALYSIS) >>

C4_Witness ==
    /\ pc = "returned"
    /\ service.state = "resolved"
    /\ result = service.value
    /\ Len(events) = 5

\* C5: when the read of the manifest has failed, the error is in flight out
\* of executeDockerImageAnalysis, the only event is one display of 'error',
\* no line was interpreted, no image list exists, the external call was not
\* issued and no progress was reported.
C5_ReadFailure ==
    err = "ReadError" =>
        /\ pc = "thrown"
        /\ events = <<updateCurrentWebviewPanel("error")>>
        /\ lines = <<>> /\ idx = 0
        /\ acc = <<>> /\ images = <<>>
        /\ sent = <<>>
        /\ service.state = "none"
        /\ result = "none"

C5_Witness ==
    /\ err = "ReadError"
    /\ pc = "thrown"
    /\ Displays = <<updateCurrentWebviewPanel("error")>>

\* C6: while the constructor interprets the lines, the references produced
\* so far are those of the lines before idx, each computed with the argument
\* table built from exactly the ARG lines before its own line (the last
\* assignment of a name wins, a name without value substitutes the empty
\* string); and a step on a later line leaves the references already
\* produced as they were.
C6_TableOfLinesBefore ==
    /\ [](Collecting => acc = ExpectedRefs(idx - 1))
    /\ [][pc = "collectImages" =>
             /\ Len(acc') >= Len(acc)
             /\ SubSeq(acc', 1, Len(acc)) = acc]_vars

\* A FROM line produced a reference, and a later ARG line has changed the
\* table so that the same line would now give another reference.
C6_Witness ==
    /\ pc = "constructed"
    /\ \E i \in 1..Len(lines) :
          /\ ExpectedRef(i) # <<>>
          /\ ExpectedRef(i) # FromRef(lines[i], args)
          /\ \E j \in (i + 1)..Len(lines) : ARG_REGEX(lines[j]) # <<>>
          /\ acc[1] = ExpectedRef(i)[1]

\* C7: no reference collected, kept or sent has the image 'scratch', and the
\* FROM lines whose name is 'scratch' after substitution, removal of the
\* platform qualifier and of the alias and trimming have produced none: the
\* references are at most as many as the other FROM lines.
C7_NoScratch ==
    /\ \A k \in 1..Len(acc) : acc[k].image # Scratch
    /\ \A k \in 1..Len(images) : images[k].image # Scratch
    /\ \A c \in 1..Len(sent) :
          \A k \in 1..Len(sent[c].images) : sent[c].images[k].image # Scratch
    /\ Collecting =>
          Len(acc) + Cardinality({ i \in 1..(idx - 1) : IsScratchLine(i) })
              <= Cardinality({ i \in 1..(idx - 1) : IsFromLine(i) })

C7_Witness ==
    /\ pc = "constructed"
    /\ lines = <<LineArgScratch, LineFromVar, LineFromScratchFull>>
    /\ images = <<>>

\* C8 as stated: every reference produced has a non-empty image.
C8_ImageNonEmpty ==
    /\ \A k \in 1..Len(acc) : acc[k].image # <<>>
    /\ \A k \in 1..Len(images) : images[k].image # <<>>

\* C9: when the constructor has interpreted every line, this.images holds
\* one reference per FROM line whose name is not 'scratch', in the order of
\* those lines, each the reference of its line; equal references are all
\* kept, and without a FROM line the list is empty.
C9_OnePerFromLineInOrder ==
    pc = "constructed" =>
        LET P == { i \in 1..Len(lines) : IsFromLine(i) /\ ~IsScratchLine(i) }
            Kth(k) == CHOOSE i \in P : Cardinality({ j \in P : j <= i }) = k
        IN /\ Len(images) = Cardinality(P)
           /\ \A k \in 1..Len(images) : <<images[k]>> = ExpectedRef(Kth(k))
           /\ (\A i \in 1..Len(lines) : ~IsFromLine(i)) => images = <<>>

C9_Witness ==
    /\ pc = "constructed"
    /\ Len(images) = 2
    /\ images[1] = images[2]
    /\ \E i \in 1..Len(lines) : ~IsFromLine(i)

\* C10 as stated: after an 'ARG name=value' line is interpreted, the table
\* maps the text before the first '=' to the whole text after the first '='.
C10_SplitAtFirstEquals ==
    (Collecting /\ idx > 1 /\ ARG_REGEX(lines[idx - 1]) # <<>>) =>
        LET t == trim(ARG_REGEX(lines[idx - 1])[1])
            E == { e \in 1..Len(t) : t[e] = "=" }
            first == CHOOSE e \in E : \A x \in E : e <= x
        IN E # {} =>
              /\ SubSeq(t, 1, first - 1) \in DOMAIN args
              /\ args[SubSeq(t, 1, first - 1)] = <<SubSeq(t, first + 1, Len(t))>>

====
